---- MODULE Spec2Model ----
(***************************************************************************)
(* Model of the ai-stocks bot: the daily scheduler goroutine               *)
(* (scheduleDaily), the dispatcher loop of main (select over the updates   *)
(* channel and the daily ticker) and the two handlers it calls             *)
(* (handleMessage, sendDailyAnalytics).  Two entry points exist in the     *)
(* repository (src/unnamed/part_002 and src/unnamed/part_003); the         *)
(* variable entry says which one is running.                               *)
(*                                                                         *)
(* Time is counted in minutes of the configured zone.  Instants are kept   *)
(* relative to the midnight that starts the current day, so the clock is   *)
(* always in 0..DayLen-1 and an instant of an earlier day is negative.     *)
(***************************************************************************)
EXTENDS Integers, Sequences, FiniteSets, TLC

\* ------------------------------------------------------------------ bounds
HoursPerDay == 2
MinutesPerHour == 2
NumChats == 2
MaxQueue == 1
MaxMsgID == 1
MaxIndexRows == 2
MaxFxCols == 2
MaxSecCols == 3
MaxMdCols == 2
MaxStockRows == 2
MaxArticles == 1
MaxChoices == 1
MaxTopStocks == 6

\* --------------------------------------------------------------- constants
DAILY_HOUR == 10
DAILY_MINUTE == 0
ADMIN_USER_ID == 449066543
OtherUser == 1

DayLen == HoursPerDay * MinutesPerHour
Hours == 0..(HoursPerDay - 1)
Minutes == 0..(MinutesPerHour - 1)
Chats == 1..NumChats
Users == {ADMIN_USER_ID, OtherUser}
AnalyticsTexts == {"T1", "T2"}
NoTime == 0 - (3 * DayLen)

VARIABLES
    entry,            \* which main is running: "part_002" or "part_003"
    hour, minute,     \* parameters of scheduleDaily
    clock,            \* time.Now() in the zone, minutes since today's midnight
    spc,              \* position of the scheduler goroutine
    nextRun,          \* scheduler local: the instant the timer was armed for
    lastTarget,       \* history: nextRun of the latest accepted emission
    sameDay,          \* history: nextRun is on the calendar day of lastTarget
    updates,          \* the updates channel: how many updates it buffers
    subscribedChats,  \* map[int64]bool of main, as the set of its keys
    dpc,              \* position of the dispatcher loop: "select" or "call"
    active,           \* number of handler invocations in progress
    hmpc,             \* handleMessage: position ("idle" when not running)
    cur,              \* handleMessage: the message being handled
    sentMsg,          \* handleMessage: MessageID of the placeholder
    dapc,             \* sendDailyAnalytics: position ("idle" when not running)
    analytics,        \* sendDailyAnalytics: the generated text
    visited,          \* sendDailyAnalytics: keys the range loop has produced
    hmOps,            \* history: what the latest handleMessage call did
    daOps,            \* history: what the latest sendDailyAnalytics call did
    before,           \* history: subscribedChats when handleMessage was called
    snapshot,         \* history: subscribedChats when sendDailyAnalytics was called
    mapAccess,        \* history: goroutines that touched subscribedChats
    adminSubscribed,  \* history: chats whose latest subscribe or unsubscribe
                      \* command of the administrator was a subscribe
    env,              \* which environment variables are set
    svpc,             \* position of main and of the GenerateAnalytics call
    md,               \* the MarketData that GetMarketData is filling in
    loc,              \* locals of the loop over the rows of a response
    got,              \* history: what the upstream responses held
    result            \* what the latest GenerateAnalytics call returned

schedVars == <<hour, minute, clock, spc, nextRun, lastTarget, sameDay>>
dispVars == <<updates, subscribedChats, dpc, active, hmpc, cur, sentMsg,
              dapc, analytics, visited, hmOps, daOps, before, snapshot,
              mapAccess, adminSubscribed>>
svcVars == <<env, svpc, md, loc, got, result>>
vars == <<entry, schedVars, dispVars, svcVars>>

\* -------------------------------------------------------------------- time
\* time.Date(now.Year(), now.Month(), now.Day(), hour, minute, 0, 0, loc):
\* the clock is relative to today's midnight, so today's date starts at 0.
Date(h, m) == (h * MinutesPerHour) + m

\* The calendar day of an instant, relative to today (0), tomorrow (1), ...
DayOf(t) == IF t >= DayLen THEN 1 ELSE IF t >= 0 THEN 0 ELSE 0 - 1

\* nextRun as scheduleDaily computes it from now.
NextRun(now, h, m) ==
    IF now > Date(h, m) THEN Date(h, m) + DayLen ELSE Date(h, m)

\* An instant re-expressed relative to the next midnight; instants of
\* earlier days are all kept as "before today".
Rebase(t) == IF t < 0 THEN t ELSE t - DayLen

\* ---------------------------------------------------------------- messages
\* A message text is a sequence of tokens: "/" followed by a command word,
\* or plain words, or nothing.
Cmd(w) == <<"/", w>>
UpdateTexts ==
    {Cmd("start"), Cmd("subscribe"), Cmd("unsubscribe"), Cmd("analytics"),
     Cmd("help"), <<"hello">>, <<>>}

Messages == [text : UpdateTexts, chat : Chats, from : Users]
NoMsg == [text |-> <<>>, chat |-> 0, from |-> 0]

\* An update of the chat platform; msg = NoMsg when update.Message is nil.
Updates == [hasMsg : {TRUE}, msg : Messages] \cup {[hasMsg |-> FALSE, msg |-> NoMsg]}

\* bot.Send returns the sent Message, or the zero Message (MessageID 0) and
\* an error.  Unused stands in the logs for a Message the code throws away.
SendResults == 0..MaxMsgID
Unused == 0 - 1

\* GenerateAnalytics returns (text, nil) or ("", err).
GenErr == "err"
GenResults == AnalyticsTexts \cup {GenErr}

\* Entries of the operation logs.
SendOp(chat, body, id) == [op |-> "send", chat |-> chat, body |-> body, id |-> id]
EditOp(chat, body, id) == [op |-> "edit", chat |-> chat, body |-> body, id |-> id]
GenOp(r) == [op |-> "gen", chat |-> 0, body |-> r, id |-> 0]

\* message.Command(): the word after the leading slash, "" when the text is
\* not a command.
Command(text) == IF Len(text) >= 2 /\ text[1] = "/" THEN text[2] ELSE ""

\* Variant: every sender passes the administrator check.
AnyoneIsAdmin(m) == TRUE

IsAdmin(m) == m.from = ADMIN_USER_ID

\* Variant: /start is answered with the refusal unless the sender is the
\* administrator.
StartReplyGated(m) ==
    SendOp(m.chat, IF IsAdmin(m) THEN "welcomeAdmin" ELSE "refusal", Unused)

\* The reply to /start: the welcome text, with one more line for the
\* administrator.
StartReply(m) ==
    SendOp(m.chat, IF IsAdmin(m) THEN "welcomeAdmin" ELSE "welcome", Unused)

\* Variant: subscribing a chat that is subscribed takes it out again.
SubscribeToggle(subs, chatID) ==
    IF chatID \in subs THEN subs \ {chatID} ELSE subs \cup {chatID}

\* subscribedChats[chatID] = true
Subscribe(subs, chatID) == subs \cup {chatID}

\* Variant: the delete is left out.
UnsubscribeNothing(subs, chatID) == subs

\* Variant: the map is emptied.
UnsubscribeAll(subs, chatID) == {}

\* delete(subscribedChats, chatID)
Unsubscribe(subs, chatID) == subs \ {chatID}

\* What a handler did: the map afterwards, the operations, where it goes on.
Result(subs, o, next) == [subs |-> subs, ops |-> o, next |-> next, touch |-> FALSE]
Touched(subs, o, next) == [subs |-> subs, ops |-> o, next |-> next, touch |-> TRUE]

\* handleMessage of part_002 up to its return or its GenerateAnalytics call;
\* id is the MessageID that bot.Send returns for the placeholder.
handleMessage002(m, subs, id) ==
    IF Len(m.text) = 0 \/ m.text[1] # "/"
    THEN Result(subs, <<>>, "return")
    ELSE LET c == Command(m.text) IN
         IF c = "start"
         THEN Result(subs, <<StartReply(m)>>, "return")
         ELSE IF c \notin {"subscribe", "unsubscribe", "analytics"}
         THEN Result(subs, <<>>, "return")
         ELSE IF ~IsAdmin(m)
         THEN Result(subs, <<SendOp(m.chat, "refusal", Unused)>>, "return")
         ELSE IF c = "subscribe"
         THEN Touched(Subscribe(subs, m.chat), <<SendOp(m.chat, "subscribed", Unused)>>, "return")
         ELSE IF c = "unsubscribe"
         THEN Touched(Unsubscribe(subs, m.chat), <<SendOp(m.chat, "unsubscribed", Unused)>>, "return")
         ELSE Result(subs, <<SendOp(m.chat, "placeholder", id)>>, "generate")

\* handleMessage of part_003, likewise.
handleMessage003(m, subs, id) ==
    IF m.text = Cmd("start")
    THEN Result(subs, <<StartReply(m)>>, "return")
    ELSE IF ~IsAdmin(m)
    THEN Result(subs, <<SendOp(m.chat, "refusal", Unused)>>, "return")
    ELSE IF m.text = Cmd("subscribe")
    THEN Touched(Subscribe(subs, m.chat), <<SendOp(m.chat, "subscribed", Unused)>>, "return")
    ELSE IF m.text = Cmd("unsubscribe")
    THEN Touched(Unsubscribe(subs, m.chat), <<SendOp(m.chat, "unsubscribed", Unused)>>, "return")
    ELSE IF m.text = Cmd("analytics")
    THEN Result(subs, <<SendOp(m.chat, "placeholder", id)>>, "generate")
    ELSE Result(subs, <<SendOp(m.chat, "unknown", Unused)>>, "return")

handleMessage(e, m, subs, id) ==
    IF e = "part_002" THEN handleMessage002(m, subs, id)
    ELSE handleMessage003(m, subs, id)

\* Variant: the generated text goes out as a new message and the
\* placeholder stays as it is.
AnalyticsReplyNewMessage(chat, placeholder, r) ==
    IF r = GenErr
    THEN <<GenOp(r), SendOp(chat, "error", Unused)>>
    ELSE <<GenOp(r), SendOp(chat, r, Unused)>>

\* The analytics case of handleMessage after the placeholder was sent:
\* GenerateAnalytics returned r; placeholder is sentMsg.MessageID.
AnalyticsReply(chat, placeholder, r) ==
    IF r = GenErr
    THEN <<GenOp(r), SendOp(chat, "error", Unused)>>
    ELSE <<GenOp(r), EditOp(chat, r, placeholder)>>

\* Variant: the error of GenerateAnalytics is logged and the broadcast goes on.
NeverAbort(r) == FALSE

\* sendDailyAnalytics returns without sending when GenerateAnalytics failed.
AbortOnError(r) == r = GenErr

\* The keys the range loop of sendDailyAnalytics can produce next.
RangeNext(subs, seen) == subs \ seen

\* The message of one iteration of the range loop.  The loop keeps only the
\* error of bot.Send: the log has the zero Message for a send that failed.
DailyMessage(chatID, text, failed) ==
    SendOp(chatID, text, IF failed THEN 0 ELSE Unused)

\* Variant: the range loop ends at the first send that fails.
StopOnFailure(failed) == ~failed

\* Whether the range loop goes on after a send: a failure is logged,
\* nothing else.
KeepGoing(failed) == TRUE

\* ---------------------------------------------------------------- services
\* The environment of the process: whether TELEGRAM_BOT_TOKEN, AI_API_KEY
\* and NEWS_API_KEY are set.
Environments == [token : BOOLEAN, key : BOOLEAN, news : BOOLEAN]

\* Every float64 of the services is kept in hundredths: 90.5 is 9050.
\* A value of a decoded JSON document, as far as the code looks at it: a
\* number, a string, or anything else.
F(v) == [t |-> "float64", v |-> v, s |-> ""]
S(str) == [t |-> "string", v |-> 0, s |-> str]
Null == [t |-> "nil", v |-> 0, s |-> ""]

\* strconv.ParseFloat(str, 64) on the strings the responses of the model
\* hold: the value, or an error.
ParseFloat(str) ==
    CASE str = "4300" -> [ok |-> TRUE, v |-> 430000]
      [] str = "164.82" -> [ok |-> TRUE, v |-> 16482]
      [] str = "-0.35" -> [ok |-> TRUE, v |-> 0 - 35]
      [] OTHER -> [ok |-> FALSE, v |-> 0]

\* A cell read as a number the way getMOEXData and getTopStocks do: a
\* float64, else a string that parses, else nothing.
NumberOf(cell) ==
    IF cell.t = "float64" THEN [ok |-> TRUE, v |-> cell.v]
    ELSE IF cell.t = "string" THEN ParseFloat(cell.s)
    ELSE [ok |-> FALSE, v |-> 0]

\* StockInfo, and its zero value.
Stock(ticker, name, price, change) ==
    [Ticker |-> ticker, Name |-> name, Price |-> price, Change |-> change,
     Currency |-> "RUB"]
ZeroStock ==
    [Ticker |-> "", Name |-> "", Price |-> 0, Change |-> 0, Currency |-> ""]

\* The values GetMarketData puts in when a request failed.
StubMOEX == 410000
StubRTS == 110000
StubUSD == 9050
StubEUR == 9870
StubStocks ==
    <<Stock("GAZP", "Gazprom", 16482, 63),
      Stock("SBER", "Sberbank", 28745, 112),
      Stock("LKOH", "Lukoil", 704650, 0 - 35)>>
StubNews == <<"RBC", "Vedomosti", "Kommersant">>

\* MarketData: its zero value (isNil tells a nil *MarketData from a pointer
\* to a zero MarketData), and the one GetMarketData makes when getMOEXData
\* failed.
ZeroData ==
    [isNil |-> FALSE, IndexMOEX |-> 0, IndexRTS |-> 0, USDRate |-> 0,
     EURRate |-> 0, TopStocks |-> <<>>, RecommendedStock |-> ZeroStock,
     MarketTrend |-> "", MarketNews |-> <<>>]
NilData == [ZeroData EXCEPT !.isNil = TRUE]
StubData ==
    [ZeroData EXCEPT !.IndexMOEX = StubMOEX, !.IndexRTS = StubRTS,
                     !.USDRate = StubUSD, !.EURRate = StubEUR,
                     !.MarketTrend = "stable"]

\* The locals of the loops over the rows of a response.
NoLoc ==
    [i |-> 0, secLen |-> 0, mdLen |-> 0, tickerIdx |-> 0, shortNameIdx |-> 0,
     boardIdIdx |-> 0, lastIdx |-> 0, changeIdx |-> 0, ticker |-> "",
     name |-> "", stockMap |-> {}]

\* What the responses held; Absent for a value that no response held.
Absent == 0 - 1
NoGot ==
    [moex |-> Absent, rts |-> Absent, usd |-> Absent, eur |-> Absent,
     stocks |-> FALSE, news |-> FALSE]

\* What GenerateAnalytics returned, how many requests it made to the
\* completion endpoint and the response it got there (NoResp when it got
\* none).
NoResp == [fail |-> "", error |-> "", choices |-> 0]
NoResult ==
    [returned |-> FALSE, text |-> "", err |-> FALSE, requests |-> 0,
     resp |-> NoResp]
Returned(text, err, requests) ==
    [returned |-> TRUE, text |-> text, err |-> err, requests |-> requests,
     resp |-> NoResp]

\* ------------------------------------------------------------------- state
\* The state when main reaches its loop, the scheduler goroutine started.
Start ==
    /\ clock \in 0..(DayLen - 1)
    /\ spc = "compute"
    /\ nextRun = NoTime
    /\ lastTarget = NoTime
    /\ sameDay = FALSE
    /\ updates = 0
    /\ subscribedChats = {}
    /\ dpc = "select"
    /\ active = 0
    /\ hmpc = "idle"
    /\ cur = NoMsg
    /\ sentMsg = 0
    /\ dapc = "idle"
    /\ analytics = ""
    /\ visited = {}
    /\ hmOps = <<>>
    /\ daOps = <<>>
    /\ before = {}
    /\ snapshot = {}
    /\ mapAccess = {}
    /\ adminSubscribed = {}

\* main has reached its loop with both credentials set and no call of
\* GenerateAnalytics has been followed into the services.
ServicesIdle ==
    /\ env = [token |-> TRUE, key |-> TRUE, news |-> FALSE]
    /\ svpc = "loop"
    /\ md = NilData
    /\ loc = NoLoc
    /\ got = NoGot
    /\ result = NoResult

\* main calls scheduleDaily(DAILY_HOUR, DAILY_MINUTE); the time of day is
\* reduced to the day of the model.
Init ==
    /\ entry \in {"part_002", "part_003"}
    /\ hour = DAILY_HOUR % HoursPerDay
    /\ minute = DAILY_MINUTE % MinutesPerHour
    /\ Start
    /\ ServicesIdle

\* scheduleDaily called with any hour and minute.
SchedInit ==
    /\ entry \in {"part_002", "part_003"}
    /\ hour \in Hours
    /\ minute \in Minutes
    /\ Start
    /\ ServicesIdle

\* --------------------------------------------------------------- scheduler
\* Time passes.  A timer that is due fires before the clock moves on; at
\* midnight every instant is re-expressed relative to the new day.
Tick ==
    /\ ~(spc = "sleep" /\ clock >= nextRun)
    /\ IF clock + 1 = DayLen
       THEN /\ clock' = 0
            /\ nextRun' = Rebase(nextRun)
            /\ lastTarget' = Rebase(lastTarget)
       ELSE /\ clock' = clock + 1
            /\ UNCHANGED <<nextRun, lastTarget>>
    /\ UNCHANGED <<entry, svcVars, hour, minute, spc, sameDay, dispVars>>

\* The top of the loop of scheduleDaily: read now, compute nextRun and
\* waitDuration, arm the timer.
Compute ==
    /\ spc = "compute"
    /\ nextRun' = NextRun(clock, hour, minute)
    /\ sameDay' = (lastTarget # NoTime /\ DayOf(nextRun') = DayOf(lastTarget))
    /\ spc' = "sleep"
    /\ UNCHANGED <<entry, svcVars, hour, minute, clock, lastTarget, dispVars>>

\* <-timer.C returns once waitDuration has elapsed; the goroutine then
\* blocks in the send on the unbuffered ticker channel.
TimerFire ==
    /\ spc = "sleep"
    /\ clock >= nextRun
    /\ spc' = "send"
    /\ UNCHANGED <<entry, svcVars, hour, minute, clock, nextRun, lastTarget, sameDay, dispVars>>

\* -------------------------------------------------------------- dispatcher
\* Variant: the channels are read whatever the loop is doing.
DispatcherAlwaysReady == TRUE

\* The dispatcher loop is at its select statement.
DispatcherReady == dpc = "select"

\* Variant: the ticker is received whatever the loop is doing.
TickerAnytime == spc = "send"

\* Variant: the ticker is looked at only when no update is waiting.
TickerAfterUpdates == DispatcherReady /\ spc = "send" /\ updates = 0

\* The select case <-dailyTicker can proceed.
TickerReady == DispatcherReady /\ spc = "send"

\* Variant: the handler is started in a goroutine of its own and the loop
\* goes straight back to its select.
SpawnHandler ==
    /\ dpc' = "select"
    /\ active' = active + 1

\* A case of the select calls its handler: the loop goes on only when the
\* handler has returned.
CallHandler ==
    /\ dpc' = "call"
    /\ active' = active + 1

\* A handler returns to the loop of main.
ReturnToLoop ==
    /\ dpc' = "select"
    /\ active' = active - 1

\* The update receiver of the chat library puts an update on the channel.
\* Nothing looks at a buffered update before the dispatcher receives it, so
\* the channel is kept as the number of updates it holds and what an update
\* carries is drawn when it is received.
Arrive ==
    /\ updates < MaxQueue
    /\ updates' = updates + 1
    /\ UNCHANGED <<entry, svcVars, schedVars, subscribedChats, dpc, active, hmpc, cur,
                   sentMsg, dapc, analytics, visited, hmOps, daOps, before,
                   snapshot, mapAccess, adminSubscribed>>

\* Variant: the handler is called for every update.
AnyUpdate(update) == TRUE

\* if update.Message != nil
HasMessage(update) == update.hasMsg

\* case update := <-updates: handleMessage is called when the update
\* carries a message.
RecvUpdate(update) ==
    /\ DispatcherReady
    /\ updates > 0
    /\ updates' = updates - 1
    /\ IF HasMessage(update)
       THEN /\ CallHandler
            /\ hmpc' = "entry"
            /\ cur' = update.msg
            /\ hmOps' = <<>>
            /\ before' = subscribedChats
            /\ IF dapc = "idle"
               THEN daOps' = <<>> /\ snapshot' = {}
               ELSE UNCHANGED <<daOps, snapshot>>
       ELSE UNCHANGED <<dpc, active, hmpc, cur, hmOps, before, daOps, snapshot>>
    /\ UNCHANGED <<entry, svcVars, schedVars, subscribedChats, sentMsg, dapc, analytics,
                   visited, mapAccess, adminSubscribed>>

\* The chats whose latest /subscribe or /unsubscribe of the administrator
\* was a /subscribe, once the message m has been handled.
Issued(chats, m) ==
    IF m.from # ADMIN_USER_ID THEN chats
    ELSE IF m.text = Cmd("subscribe") THEN chats \cup {m.chat}
    ELSE IF m.text = Cmd("unsubscribe") THEN chats \ {m.chat}
    ELSE chats

\* handleMessage from its entry to its return or to the call of
\* GenerateAnalytics.
HandleCommand ==
    /\ hmpc = "entry"
    /\ \E id \in SendResults :
         LET r == handleMessage(entry, cur, subscribedChats, id) IN
         /\ subscribedChats' = r.subs
         /\ hmOps' = r.ops
         /\ mapAccess' = IF r.touch THEN mapAccess \cup {"main"} ELSE mapAccess
         /\ adminSubscribed' = Issued(adminSubscribed, cur)
         /\ IF r.next = "generate"
            THEN /\ hmpc' = "generate"
                 /\ sentMsg' = id
                 /\ UNCHANGED <<dpc, active>>
            ELSE /\ hmpc' = "idle"
                 /\ sentMsg' = 0
                 /\ ReturnToLoop
    /\ UNCHANGED <<entry, svcVars, schedVars, updates, cur, dapc, analytics, visited,
                   daOps, before, snapshot>>

\* The analytics case: GenerateAnalytics returns, the reply is sent and
\* handleMessage returns.
AnalyticsGenerate ==
    /\ hmpc = "generate"
    /\ \E r \in GenResults :
         hmOps' = hmOps \o AnalyticsReply(cur.chat, sentMsg, r)
    /\ hmpc' = "idle"
    /\ sentMsg' = 0
    /\ ReturnToLoop
    /\ UNCHANGED <<entry, svcVars, schedVars, updates, subscribedChats, cur, dapc,
                   analytics, visited, daOps, before, snapshot, mapAccess,
                   adminSubscribed>>

\* case <-dailyTicker: the rendezvous with the scheduler's send; the
\* scheduler goes back to the top of its loop and sendDailyAnalytics is
\* called (it logs len(subscribedChats) first).
RecvTick ==
    /\ TickerReady
    /\ spc' = "compute"
    /\ lastTarget' = nextRun
    /\ nextRun' = NoTime
    /\ CallHandler
    /\ dapc' = "generate"
    /\ daOps' = <<>>
    /\ snapshot' = subscribedChats
    /\ mapAccess' = mapAccess \cup {"main"}
    /\ IF hmpc = "idle"
       THEN hmOps' = <<>> /\ before' = {} /\ cur' = NoMsg
       ELSE UNCHANGED <<hmOps, before, cur>>
    /\ sameDay' = FALSE
    /\ UNCHANGED <<entry, svcVars, hour, minute, clock, updates, subscribedChats, hmpc,
                   sentMsg, analytics, visited, adminSubscribed>>

\* sendDailyAnalytics: GenerateAnalytics returns; on an error the handler
\* returns, otherwise the range loop starts (and ends at once on an empty
\* map).
DailyGenerate ==
    /\ dapc = "generate"
    /\ \E r \in GenResults :
         /\ daOps' = Append(daOps, GenOp(r))
         /\ IF AbortOnError(r) \/ RangeNext(subscribedChats, {}) = {}
            THEN /\ dapc' = "idle"
                 /\ analytics' = ""
                 /\ ReturnToLoop
            ELSE /\ dapc' = "range"
                 /\ analytics' = r
                 /\ UNCHANGED <<dpc, active>>
    /\ UNCHANGED <<entry, svcVars, schedVars, updates, subscribedChats, hmpc, cur,
                   sentMsg, visited, hmOps, before, snapshot, mapAccess,
                   adminSubscribed>>

\* Variant: the text is generated anew for every subscriber.
DailySendRegenerating ==
    /\ dapc = "range"
    /\ \E chatID \in RangeNext(subscribedChats, visited), failed \in BOOLEAN :
         /\ daOps' = daOps \o <<GenOp(analytics), DailyMessage(chatID, analytics, failed)>>
         /\ IF RangeNext(subscribedChats, visited \cup {chatID}) = {} \/ ~KeepGoing(failed)
            THEN /\ dapc' = "idle"
                 /\ analytics' = ""
                 /\ visited' = {}
                 /\ ReturnToLoop
            ELSE /\ visited' = visited \cup {chatID}
                 /\ UNCHANGED <<dapc, analytics, dpc, active>>
    /\ UNCHANGED <<entry, svcVars, schedVars, updates, subscribedChats, hmpc, cur,
                   sentMsg, hmOps, before, snapshot, mapAccess,
                   adminSubscribed>>

\* One iteration of the range loop: a send to the next key; the handler
\* returns after the last one.
DailySend ==
    /\ dapc = "range"
    /\ \E chatID \in RangeNext(subscribedChats, visited), failed \in BOOLEAN :
         /\ daOps' = Append(daOps, DailyMessage(chatID, analytics, failed))
         /\ IF RangeNext(subscribedChats, visited \cup {chatID}) = {} \/ ~KeepGoing(failed)
            THEN /\ dapc' = "idle"
                 /\ analytics' = ""
                 /\ visited' = {}
                 /\ ReturnToLoop
            ELSE /\ visited' = visited \cup {chatID}
                 /\ UNCHANGED <<dapc, analytics, dpc, active>>
    /\ UNCHANGED <<entry, svcVars, schedVars, updates, subscribedChats, hmpc, cur,
                   sentMsg, hmOps, before, snapshot, mapAccess,
                   adminSubscribed>>

Next ==
    \/ Tick
    \/ Compute
    \/ TimerFire
    \/ Arrive
    \/ \E update \in Updates : RecvUpdate(update)
    \/ HandleCommand
    \/ AnalyticsGenerate
    \/ RecvTick
    \/ DailyGenerate
    \/ DailySend

Spec == Init /\ [][Next]_vars

SchedSpec == SchedInit /\ [][Next]_vars

\* Time advances, the goroutines run and every call of a handler returns.
\* Go's select takes one of the ready cases at random, so a ticker case
\* that is ready again and again is taken in the end.
Fairness ==
    /\ WF_vars(Tick)
    /\ WF_vars(Compute)
    /\ WF_vars(TimerFire)
    /\ SF_vars(RecvTick)
    /\ WF_vars(HandleCommand)
    /\ WF_vars(AnalyticsGenerate)
    /\ WF_vars(DailyGenerate)
    /\ WF_vars(DailySend)

FairSpec == Init /\ [][Next]_vars /\ Fairness

\* ------------------------------------------------------- startup, services
\* The sequences over a set that have at most n entries.
SeqsUpTo(set, n) == UNION {[1..k -> set] : k \in 0..n}

\* The index (from 0) of the last column called name, or none when no
\* column is: the loops over the column names keep the index they saw last.
LastIndex(columns, name, none) ==
    LET hits == {i \in DOMAIN columns : columns[i] = name} IN
    IF hits = {} THEN none
    ELSE (CHOOSE i \in hits : \A j \in hits : j <= i) - 1

\* main up to its loop: log.Fatal without TELEGRAM_BOT_TOKEN and, in
\* part_002, without AI_API_KEY; log.Panic when NewBotAPI fails.
Main ==
    /\ svpc = "main"
    /\ \E authorized \in BOOLEAN :
         svpc' = IF ~env.token THEN "fatal"
                 ELSE IF entry = "part_002" /\ ~env.key THEN "fatal"
                 ELSE IF ~authorized THEN "authpanic"
                 ELSE "loop"
    /\ UNCHANGED <<entry, schedVars, dispVars, env, md, loc, got, result>>

\* A handler calls GenerateAnalytics.  The service of part_003
\* (ai_service.go) returns its local text when it has no key and goes to
\* the completion request otherwise; the service of part_002 (part_000)
\* calls GetMarketData first.
CallGenerate ==
    /\ svpc = "loop"
    /\ md' = NilData
    /\ loc' = NoLoc
    /\ got' = NoGot
    /\ IF entry = "part_003"
       THEN IF ~env.key
            THEN /\ result' = Returned("local", FALSE, 0)
                 /\ svpc' = "loop"
            ELSE /\ result' = NoResult
                 /\ svpc' = "complete"
       ELSE /\ result' = NoResult
            /\ svpc' = "moex"
    /\ UNCHANGED <<entry, schedVars, dispVars, env>>

\* getMOEXData, the request for the indices: on any failure (request, read,
\* parse, a table of the wrong shape) it returns an error and GetMarketData
\* goes on with its stub; otherwise the loop over the rows starts.
MoexRequest ==
    /\ svpc = "moex"
    /\ \E ok \in BOOLEAN, secLen \in 0..MaxIndexRows, mdLen \in 0..MaxIndexRows :
         IF ~ok
         THEN /\ md' = StubData
              /\ loc' = NoLoc
              /\ svpc' = "news"
         ELSE /\ md' = [ZeroData EXCEPT !.MarketTrend = "stable"]
              /\ loc' = [NoLoc EXCEPT !.secLen = secLen, !.mdLen = mdLen]
              /\ svpc' = "moexRows"
    /\ UNCHANGED <<entry, schedVars, dispVars, env, got, result>>

\* A row of securities.data: long when it is an array of two entries or
\* more, and its first entry.  A row of marketdata.data: long when it is
\* an array of three entries or more, and its third entry.
IndexTickers == {"IMOEX", "RTSI", "MOEXBC"}
IndexSecRows == [long : BOOLEAN, ticker : {S(t) : t \in IndexTickers} \cup {Null}]
IndexMdRows ==
    [long : BOOLEAN,
     last : {F(400000), S("4300"), S("n/a"), Null}]

\* One iteration of the loop over securities.data: row i (from 0) and the
\* row of marketdata.data at the same index, when there is one.
IndexRow(data, i, mdLen, sec, mdRow) ==
    IF ~sec.long \/ sec.ticker.t # "string" THEN data
    ELSE IF ~(i < mdLen) THEN data
    ELSE IF ~mdRow.long THEN data
    ELSE LET lastPrice == NumberOf(mdRow.last) IN
         IF ~lastPrice.ok THEN data
         ELSE IF sec.ticker.s = "IMOEX" THEN [data EXCEPT !.IndexMOEX = lastPrice.v]
         ELSE IF sec.ticker.s = "RTSI" THEN [data EXCEPT !.IndexRTS = lastPrice.v]
         ELSE data

MoexRow ==
    /\ svpc = "moexRows"
    /\ loc.i < loc.secLen
    /\ \E sec \in IndexSecRows, mdRow \in IndexMdRows :
         /\ md' = IndexRow(md, loc.i, loc.mdLen, sec, mdRow)
         /\ got' = [got EXCEPT
                      !.moex = IF md'.IndexMOEX # md.IndexMOEX THEN md'.IndexMOEX ELSE @,
                      !.rts = IF md'.IndexRTS # md.IndexRTS THEN md'.IndexRTS ELSE @]
    /\ loc' = [loc EXCEPT !.i = @ + 1]
    /\ UNCHANGED <<entry, schedVars, dispVars, env, svpc, result>>

\* The response of the request for the exchange rates, decoded into
\* MoexAPIResponse: the column names and the rows of cbrf (only the first
\* row is read), or a failure of the request, the read or the decoding.
FxColumns == {"CBRF_USD_LAST", "CBRF_EUR_LAST", "TRADEDATE"}
FxCells == {F(9100), S("n/a")}
FxFailed == [ok |-> FALSE, columns |-> <<>>, data |-> <<>>]
FxResponses ==
    {FxFailed} \cup
    [ok : {TRUE},
     columns : SeqsUpTo(FxColumns, MaxFxCols),
     data : {<<>>} \cup {<<row>> : row \in SeqsUpTo(FxCells, MaxFxCols)}]

\* v, _ = cell.(float64)
AsFloat(cell) == IF cell.t = "float64" THEN cell.v ELSE 0

\* The rates read from a decoded response: row := Data[0] and the two
\* cells at idx[...], where idx of a name that is no column is 0.  An index
\* out of range panics.
FxRates(fx) ==
    LET usd == LastIndex(fx.columns, "CBRF_USD_LAST", 0)
        eur == LastIndex(fx.columns, "CBRF_EUR_LAST", 0)
    IN  IF fx.data = <<>> THEN [panic |-> TRUE, usd |-> 0, eur |-> 0]
        ELSE IF usd >= Len(fx.data[1]) \/ eur >= Len(fx.data[1])
        THEN [panic |-> TRUE, usd |-> 0, eur |-> 0]
        ELSE [panic |-> FALSE,
              usd |-> AsFloat(fx.data[1][usd + 1]),
              eur |-> AsFloat(fx.data[1][eur + 1])]

\* The rate the response holds under a column name, Absent when it holds
\* none there.
FxHeld(fx, name) ==
    LET at == LastIndex(fx.columns, name, Absent) IN
    IF ~fx.ok \/ fx.data = <<>> \/ at = Absent THEN Absent
    ELSE IF at >= Len(fx.data[1]) THEN Absent
    ELSE IF fx.data[1][at + 1].t # "float64" THEN Absent
    ELSE fx.data[1][at + 1].v

\* The trend getMOEXData derives from the index.
Trend(moex) ==
    IF moex > 420000 THEN "up" ELSE IF moex < 380000 THEN "down" ELSE "stable"

\* getMOEXData after its loop: the request for the exchange rates, the
\* trend, and the return to GetMarketData.
FxRequest ==
    /\ svpc = "moexRows"
    /\ loc.i = loc.secLen
    /\ \E fx \in FxResponses :
         LET r == IF fx.ok THEN FxRates(fx)
                  ELSE [panic |-> FALSE, usd |-> md.USDRate, eur |-> md.EURRate]
         IN  IF r.panic
             THEN /\ svpc' = "panic"
                  /\ UNCHANGED <<md, got>>
             ELSE /\ svpc' = "news"
                  /\ md' = [md EXCEPT !.USDRate = r.usd, !.EURRate = r.eur,
                                      !.MarketTrend = Trend(md.IndexMOEX)]
                  /\ got' = [got EXCEPT !.usd = FxHeld(fx, "CBRF_USD_LAST"),
                                        !.eur = FxHeld(fx, "CBRF_EUR_LAST")]
    /\ loc' = NoLoc
    /\ UNCHANGED <<entry, schedVars, dispVars, env, result>>

\* The response of the news API: a failure of the request, the read or
\* the decoding, or a status and a number of articles.
NewsFailed == [ok |-> FALSE, status |-> "error", articles |-> 0]
NewsResponses ==
    {NewsFailed} \cup [ok : {TRUE}, status : {"ok", "error"}, articles : 0..MaxArticles]

\* fetchNewsFromAPI: an error, or one NewsItem for every article.
fetchNewsFromAPI(resp) ==
    IF ~resp.ok \/ resp.status # "ok" \/ resp.articles = 0
    THEN [err |-> TRUE, news |-> <<>>]
    ELSE [err |-> FALSE, news |-> [i \in 1..resp.articles |-> "api"]]

\* getMarketNews: the fetched news when NEWS_API_KEY is set and the fetch
\* gave some, its three stub items otherwise; it never returns an error.
getMarketNews(hasKey, resp) ==
    IF hasKey /\ ~fetchNewsFromAPI(resp).err /\ Len(fetchNewsFromAPI(resp).news) > 0
    THEN fetchNewsFromAPI(resp).news
    ELSE StubNews

MarketNews ==
    /\ svpc = "news"
    /\ \E resp \in NewsResponses :
         /\ md' = [md EXCEPT !.MarketNews = getMarketNews(env.news, resp)]
         /\ got' = [got EXCEPT !.news = env.news /\ ~fetchNewsFromAPI(resp).err]
    /\ svpc' = "stocks"
    /\ UNCHANGED <<entry, schedVars, dispVars, env, loc, result>>

\* len(stocks) > 5 is cut to 5.
TOP_LIMIT == 5

\* The index of a column that was not found.
NoIdx == 0 - 1

\* bestStock of GetMarketData: the first entry, replaced by every later
\* entry whose Change is greater.
RECURSIVE BestFrom(_, _, _)
BestFrom(stocks, i, best) ==
    IF i > Len(stocks) THEN best
    ELSE BestFrom(stocks, i + 1,
                  IF stocks[i].Change > best.Change THEN stocks[i] ELSE best)

\* The end of GetMarketData: TopStocks and RecommendedStock.
Finish(data, stocks) ==
    [data EXCEPT !.TopStocks = stocks,
                 !.RecommendedStock =
                     IF Len(stocks) > 0 THEN BestFrom(stocks, 1, stocks[1])
                     ELSE Stock("GAZP", "Gazprom", 16482, 63)]

\* The column names of securities and of marketdata in the response for
\* the stocks: the header the exchange sends, and headers that lack a
\* column or have them in another order.
SecHeaders ==
    {<<"SECID", "BOARDID", "SHORTNAME">>, <<"BOARDID", "SHORTNAME", "SECID">>,
     <<"SECID", "SHORTNAME">>, <<"SECID", "BOARDID">>}
MdHeaders == {<<"LAST", "CHANGE">>, <<"CHANGE", "LAST">>, <<"LAST">>, <<"CHANGE">>}

\* getTopStocks up to its loop: on any failure of the request and when a
\* needed column is missing it returns an error and GetMarketData takes
\* its stub list; otherwise the loop over the rows starts.
StocksRequest ==
    /\ svpc = "stocks"
    /\ \E ok \in BOOLEAN, columns \in SecHeaders, mdColumns \in MdHeaders :
         LET tickerIdx == LastIndex(columns, "SECID", NoIdx)
             shortNameIdx == LastIndex(columns, "SHORTNAME", NoIdx)
             boardIdIdx == LastIndex(columns, "BOARDID", NoIdx)
             lastIdx == LastIndex(mdColumns, "LAST", NoIdx)
             changeIdx == LastIndex(mdColumns, "CHANGE", NoIdx)
         IN  IF ~ok \/ tickerIdx = NoIdx \/ shortNameIdx = NoIdx \/ lastIdx = NoIdx
             THEN /\ md' = Finish(md, StubStocks)
                  /\ loc' = NoLoc
                  /\ svpc' = "complete"
             ELSE /\ md' = md
                  /\ loc' = [NoLoc EXCEPT
                               !.tickerIdx = tickerIdx, !.shortNameIdx = shortNameIdx,
                               !.boardIdIdx = boardIdIdx, !.lastIdx = lastIdx,
                               !.changeIdx = changeIdx]
                  /\ svpc' = "stockRows"
    /\ UNCHANGED <<entry, schedVars, dispVars, env, got, result>>

\* A row of securities.data: how many cells it has and the cells in the
\* columns SECID, BOARDID and SHORTNAME (read only when the row reaches
\* them); a row that is no array is skipped like a row without cells.
StockTickers == {"SBER", "GAZP"}
StockSecRows ==
    [len : 0..MaxSecCols,
     ticker : {S(t) : t \in StockTickers} \cup {Null},
     board : {S("TQBR"), S("SMAL")},
     name : {S("name")}]

\* The row of marketdata.data at the same index: whether there is one
\* (i < len(mdData)), how many cells it has and its LAST and CHANGE cells;
\* a row that is no array is skipped like a row without cells.
StockMdRows ==
    [present : BOOLEAN,
     len : 0..MaxMdCols,
     last : {F(28745), Null},
     change : {F(112), S("-0.35"), Null}]

\* stockMap[ticker] = &stock
Put(stockMap, stock) ==
    {x \in stockMap : x.Ticker # stock.Ticker} \cup {stock}

\* An iteration of the loop over securities.data in getTopStocks, its part
\* that reads the row of securities: "continue", "panic" when the row is
\* indexed out of its range, or "marketdata" with the ticker and the name.
StockSec(l, sec) ==
    IF sec.len <= l.shortNameIdx THEN [to |-> "continue", ticker |-> "", name |-> ""]
    ELSE IF l.tickerIdx >= sec.len THEN [to |-> "panic", ticker |-> "", name |-> ""]
    ELSE IF sec.ticker.t # "string" THEN [to |-> "continue", ticker |-> "", name |-> ""]
    ELSE IF l.boardIdIdx < 0 \/ l.boardIdIdx >= sec.len
    THEN [to |-> "panic", ticker |-> "", name |-> ""]
    ELSE IF sec.board.t # "string" \/ sec.board.s # "TQBR"
    THEN [to |-> "continue", ticker |-> "", name |-> ""]
    ELSE [to |-> "marketdata", ticker |-> sec.ticker.s,
          name |-> IF sec.name.t = "string" THEN sec.name.s ELSE sec.ticker.s]

\* The loop of getTopStocks takes the next row of securities.data; the
\* number of rows is not known before the loop ends.
StockSecRow ==
    /\ svpc = "stockRows"
    /\ loc.i < MaxStockRows
    /\ \E sec \in StockSecRows :
         LET r == StockSec(loc, sec) IN
         IF r.to = "panic"
         THEN /\ svpc' = "panic"
              /\ loc' = NoLoc
         ELSE IF r.to = "continue"
         THEN /\ svpc' = "stockRows"
              /\ loc' = [loc EXCEPT !.i = @ + 1]
         ELSE /\ svpc' = "stockMd"
              /\ loc' = [loc EXCEPT !.ticker = r.ticker, !.name = r.name]
    /\ UNCHANGED <<entry, schedVars, dispVars, env, md, got, result>>

\* The part of the iteration that reads the row of marketdata: the stock
\* goes into stockMap unless the row is missing or too short.
StockMd(l, mdRow) ==
    IF ~mdRow.present \/ mdRow.len <= l.lastIdx THEN l.stockMap
    ELSE LET price == IF NumberOf(mdRow.last).ok THEN NumberOf(mdRow.last).v ELSE 0
             change == IF l.changeIdx >= 0 /\ l.changeIdx < mdRow.len
                          /\ NumberOf(mdRow.change).ok
                       THEN NumberOf(mdRow.change).v ELSE 0
         IN  Put(l.stockMap, Stock(l.ticker, l.name, price, change))

StockMdRow ==
    /\ svpc = "stockMd"
    /\ \E mdRow \in StockMdRows :
         loc' = [loc EXCEPT !.i = @ + 1, !.ticker = "", !.name = "",
                            !.stockMap = StockMd(loc, mdRow)]
    /\ svpc' = "stockRows"
    /\ UNCHANGED <<entry, schedVars, dispVars, env, md, got, result>>

\* The orders in which a range over a map can produce its entries.
Orders(set) ==
    {seq \in [1..Cardinality(set) -> set] :
        \A i, j \in 1..Cardinality(set) : i # j => seq[i] # seq[j]}

\* The whole list, however long.
KeepAll(stocks) == stocks

\* stocks[:5] when there are more than 5.
Truncate(stocks) ==
    IF Len(stocks) > TOP_LIMIT THEN SubSeq(stocks, 1, TOP_LIMIT) ELSE stocks

\* getTopStocks after its loop: the map goes into a slice in the order of
\* the range; an empty slice is an error (GetMarketData takes its stub
\* list).  Then GetMarketData sets the recommendation and returns.
StocksDone ==
    /\ svpc = "stockRows"
    /\ \E stocks \in Orders(loc.stockMap) :
         /\ md' = Finish(md, IF Len(stocks) = 0 THEN StubStocks ELSE Truncate(stocks))
         /\ got' = [got EXCEPT !.stocks = Len(stocks) > 0]
    /\ loc' = NoLoc
    /\ svpc' = "complete"
    /\ UNCHANGED <<entry, schedVars, dispVars, env, result>>

\* The response of the completion endpoint: where the exchange failed (the
\* URL of ai_service.go comes from the environment and may be no URL; the
\* request, the read, the decoding), or the decoded body: no error object,
\* one with an empty message or one with a message, and the choices.
CompletionResponses ==
    [fail : {"url", "request", "read", "parse"}, error : {"none"}, choices : {0}]
    \cup [fail : {"none"}, error : {"none", "empty", "message"}, choices : 0..MaxChoices]

\* GenerateAnalytics taking the first choice whenever there is one,
\* whatever error the response carries.
CompletionFirstChoice(e, resp) ==
    IF resp.fail = "url" THEN Returned("", TRUE, 0)
    ELSE IF resp.fail # "none" THEN Returned("", TRUE, 1)
    ELSE IF resp.choices = 0 THEN Returned("", TRUE, 1)
    ELSE Returned("content", FALSE, 1)

\* GenerateAnalytics from its request on.  part_000 takes a non-empty
\* Error.Message for an API error, ai_service.go a non-nil Error.
Completion(e, resp) ==
    IF resp.fail = "url" THEN Returned("", TRUE, 0)
    ELSE IF resp.fail # "none" THEN Returned("", TRUE, 1)
    ELSE IF resp.error = "message" \/ (e = "part_003" /\ resp.error = "empty")
    THEN Returned("", TRUE, 1)
    ELSE IF resp.choices = 0 THEN Returned("", TRUE, 1)
    ELSE Returned("content", FALSE, 1)

\* The request to the completion endpoint and the return of
\* GenerateAnalytics; the MarketData is garbage from here on.
Complete ==
    /\ svpc = "complete"
    /\ \E resp \in CompletionResponses :
         /\ entry = "part_002" => resp.fail # "url"
         /\ result' = [Completion(entry, resp) EXCEPT !.resp = resp]
    /\ svpc' = "loop"
    /\ md' = NilData
    /\ got' = NoGot
    /\ UNCHANGED <<entry, schedVars, dispVars, env, loc>>

\* The process from the start of main, with any environment, followed
\* through every call of GenerateAnalytics.
ServiceInit ==
    /\ entry \in {"part_002", "part_003"}
    /\ hour = DAILY_HOUR % HoursPerDay
    /\ minute = DAILY_MINUTE % MinutesPerHour
    /\ Start
    /\ clock = 0
    /\ env \in Environments
    /\ svpc = "main"
    /\ md = NilData
    /\ loc = NoLoc
    /\ got = NoGot
    /\ result = NoResult

ServiceNext ==
    \/ Main
    \/ CallGenerate
    \/ MoexRequest
    \/ MoexRow
    \/ FxRequest
    \/ MarketNews
    \/ StocksRequest
    \/ StockSecRow
    \/ StockMdRow
    \/ StocksDone
    \/ Complete

ServiceSpec == ServiceInit /\ [][ServiceNext]_vars

\* ------------------------------------------------------------- top stocks
\* The end of getTopStocks and of GetMarketData on a stockMap of up to
\* MaxTopStocks stocks: more than the 5 that are kept.
TopTickers ==
    <<"SBER", "GAZP", "LKOH", "ROSN", "GMKN", "NVTK", "YNDX", "VTBR">>

\* stockMap after the loop put k stocks in, the first h of them with the
\* greater Change (the range over the map gives them in any order).
StockMapOf(k, h) ==
    {Stock(TopTickers[n], "name", 28745, IF n <= h THEN 112 ELSE 63) : n \in 1..k}
StockMaps == {StockMapOf(k, h) : k \in 0..MaxTopStocks, h \in 0..MaxTopStocks}

\* GetMarketData at its call of getTopStocks, or getTopStocks at the end
\* of its loop with a stockMap; the index request had failed and the news
\* are the stub news.
TopInit ==
    /\ entry = "part_002"
    /\ hour = DAILY_HOUR % HoursPerDay
    /\ minute = DAILY_MINUTE % MinutesPerHour
    /\ Start
    /\ clock = 0
    /\ env = [token |-> TRUE, key |-> TRUE, news |-> FALSE]
    /\ md = [StubData EXCEPT !.MarketNews = StubNews]
    /\ got = NoGot
    /\ result = NoResult
    /\ \/ /\ svpc = "stocks"
          /\ loc = NoLoc
       \/ /\ svpc = "stockRows"
          /\ \E stockMap \in StockMaps :
                loc = [NoLoc EXCEPT !.i = Cardinality(stockMap),
                                    !.tickerIdx = 0, !.boardIdIdx = 1,
                                    !.shortNameIdx = 2, !.lastIdx = 0,
                                    !.changeIdx = 1, !.stockMap = stockMap]

TopNext ==
    \/ StocksRequest
    \/ StocksDone
    \/ Complete

TopSpec == TopInit /\ [][TopNext]_vars

\* ------------------------------------------------------------- log readers
\* The positions of a log that hold an operation of one kind.
OpsOf(log, kind) == {i \in DOMAIN log : log[i].op = kind}

\* The sends of a log that went to a chat.
SendsTo(log, chat) == {i \in OpsOf(log, "send") : log[i].chat = chat}

\* The latest handler call was a broadcast and it has returned.
DailyDone == dapc = "idle" /\ daOps # <<>>

\* The latest handler call was a handleMessage and it has returned.
MessageDone == hmpc = "idle" /\ cur # NoMsg

\* The message in handleMessage is the administrator's /analytics.
AdminAnalytics == IsAdmin(cur) /\ cur.text = Cmd("analytics")

\* ------------------------------------------------------------------ claims
\* C1: whenever scheduleDaily computes nextRun from the instant now it has
\* just read, now < nextRun <= now + 24h and nextRun is at hour:minute:00,
\* so the wait is in (0, 24h], also when now is exactly today's target.
C1_NextRunStrictlyAhead ==
    [][(spc = "compute" /\ spc' = "sleep") =>
         /\ clock < nextRun'
         /\ nextRun' <= clock + DayLen
         /\ nextRun' % DayLen = Date(hour, minute)]_vars

\* C2: the targets of two successive emissions of the scheduler never lie
\* on the same calendar day: no emission is accepted whose target is on the
\* day of the target of the emission before it.
C2_OneSignalPerDay ==
    [][(spc = "send" /\ spc' = "compute") => ~sameDay]_vars

\* C3: under Fairness the scheduler's timer fires and a broadcast starts
\* again and again, and every WakeSignal whose timer has fired is received
\* by the dispatcher, which then starts a broadcast, whatever chat updates
\* keep arriving.
C3_SignalsKeepComing ==
    /\ []<>(spc = "send")
    /\ []<>(dapc = "generate")
    /\ (spc = "send") ~> (dapc = "generate")

\* C3 witness: a broadcast has just started for a fired timer while a chat
\* update is waiting on the updates channel.
C3_Witness ==
    /\ dapc = "generate"
    /\ daOps = <<>>
    /\ lastTarget # NoTime
    /\ updates > 0

\* C4: at most one handler is running, the loop is at its select exactly
\* when none is, only the dispatcher goroutine touches subscribedChats, and
\* subscribedChats changes only in a step of handleMessage.
C4_HandlersSerialized ==
    /\ [](/\ active <= 1
          /\ ~(hmpc # "idle" /\ dapc # "idle")
          /\ (dpc = "select") = (hmpc = "idle" /\ dapc = "idle")
          /\ (dpc = "select") = (active = 0)
          /\ mapAccess \subseteq {"main"})
    /\ [][subscribedChats' # subscribedChats =>
            (hmpc = "entry" /\ dapc = "idle" /\ active = 1)]_vars

\* C4 witness: handleMessage is running for a subscribe while another
\* update and a WakeSignal are both waiting for the loop.
C4_Witness ==
    /\ dpc = "call"
    /\ hmpc = "entry"
    /\ cur.text = Cmd("subscribe")
    /\ updates > 0
    /\ spc = "send"

\* C5: a broadcast calls GenerateAnalytics exactly once, before any send,
\* whatever it returns; when it returned a text T the broadcast sends
\* exactly one message, with body T, to every chat of subscribedChats and
\* nothing to any other chat.
C5_OneTextFannedOut ==
    /\ dapc # "idle" => Cardinality(OpsOf(daOps, "gen")) <= 1
    /\ dapc = "range" => Cardinality(OpsOf(daOps, "gen")) = 1
    /\ DailyDone =>
          /\ Cardinality(OpsOf(daOps, "gen")) = 1
          /\ daOps[1].op = "gen"
          /\ OpsOf(daOps, "edit") = {}
          /\ daOps[1].body # GenErr =>
                /\ \A i \in OpsOf(daOps, "send") : daOps[i].body = daOps[1].body
                /\ \A c \in Chats :
                     Cardinality(SendsTo(daOps, c)) = IF c \in subscribedChats THEN 1 ELSE 0

\* C5 witness: a broadcast with a generated text has returned and every
\* chat is subscribed.
C5_Witness ==
    /\ DailyDone
    /\ daOps[1].body = "T2"
    /\ subscribedChats = Chats
    /\ Len(daOps) = 1 + NumChats

\* C6: while a broadcast is running no update is being handled and
\* subscribedChats is what it was when the WakeSignal was received; the
\* chats a broadcast has sent to are among, and at its return are exactly,
\* the members at that moment.
C6_RecipientsAreSnapshot ==
    /\ dapc # "idle" =>
          /\ hmpc = "idle"
          /\ subscribedChats = snapshot
          /\ {daOps[i].chat : i \in OpsOf(daOps, "send")} \subseteq snapshot
    /\ (DailyDone /\ daOps[1].body # GenErr) =>
          {daOps[i].chat : i \in OpsOf(daOps, "send")} = snapshot

\* C6 witness: the range loop of a broadcast has sent to one subscriber,
\* another is still to come, and an update is waiting on the channel.
C6_Witness ==
    /\ dapc = "range"
    /\ Len(daOps) = 2
    /\ snapshot = Chats
    /\ updates > 0

\* C7: when a send of a broadcast failed, a send was still attempted to
\* every member of subscribedChats and the chat whose send failed is still
\* a member after the broadcast.
C7_FailureIsolated ==
    (DailyDone /\ \E i \in OpsOf(daOps, "send") : daOps[i].id = 0) =>
        /\ \A c \in snapshot : SendsTo(daOps, c) # {}
        /\ \A i \in OpsOf(daOps, "send") :
             daOps[i].id = 0 => daOps[i].chat \in subscribedChats
        /\ subscribedChats = snapshot

\* C7 witness: a broadcast has returned whose first send failed and whose
\* second send, to another chat, went through.
C7_Witness ==
    /\ DailyDone
    /\ Len(daOps) = 3
    /\ daOps[2].op = "send" /\ daOps[2].id = 0
    /\ daOps[3].op = "send" /\ daOps[3].id # 0

\* C8: when GenerateAnalytics failed in a broadcast, the broadcast made
\* that one call and no send, subscribedChats is unchanged, and the
\* dispatcher loop is back at its select.
C8_FailedBroadcastSendsNothing ==
    /\ (dapc # "idle" /\ daOps # <<>>) => daOps[1].body # GenErr
    /\ (DailyDone /\ daOps[1].body = GenErr) =>
          /\ daOps = <<GenOp(GenErr)>>
          /\ subscribedChats = snapshot
          /\ dpc = "select"
          /\ active = 0

\* C8 witness: a broadcast whose GenerateAnalytics failed has returned while
\* there are subscribers.
C8_Witness ==
    /\ DailyDone
    /\ daOps[1].body = GenErr
    /\ subscribedChats = Chats

\* C9: when the administrator's /analytics meets a failing
\* GenerateAnalytics, the chat gets the placeholder and then one edit of
\* that placeholder to the error text, and no other message; the call is
\* not repeated, subscribedChats is unchanged and the loop is at its select.
C9_ErrorEditsPlaceholder ==
    (MessageDone /\ AdminAnalytics /\ Len(hmOps) >= 2 /\ hmOps[2] = GenOp(GenErr)) =>
        /\ hmOps = <<SendOp(cur.chat, "placeholder", hmOps[1].id),
                     GenOp(GenErr),
                     EditOp(cur.chat, "error", hmOps[1].id)>>
        /\ subscribedChats = before
        /\ dpc = "select"

\* C10: the administrator's /analytics with a succeeding GenerateAnalytics
\* does, in this order, one send of the placeholder to the calling chat,
\* one GenerateAnalytics call and one edit of the message that send
\* returned, to the generated text; nothing goes to another chat.
C10_PlaceholderThenEdit ==
    /\ (hmpc = "generate") =>
          /\ AdminAnalytics
          /\ hmOps = <<SendOp(cur.chat, "placeholder", sentMsg)>>
    /\ (MessageDone /\ AdminAnalytics) =>
          /\ Len(hmOps) = 3
          /\ hmOps[1].op = "send" /\ hmOps[1].body = "placeholder"
          /\ hmOps[1].chat = cur.chat /\ hmOps[1].id \in SendResults
          /\ hmOps[2].op = "gen"
          /\ hmOps[2].body # GenErr =>
                hmOps[3] = EditOp(cur.chat, hmOps[2].body, hmOps[1].id)
          /\ \A i \in OpsOf(hmOps, "send") \cup OpsOf(hmOps, "edit") :
               hmOps[i].chat = cur.chat
          /\ dapc = "idle" /\ daOps = <<>>

\* C10 witness: the administrator's /analytics has returned after editing
\* the placeholder that was sent into the generated text.
C10_Witness ==
    /\ MessageDone
    /\ AdminAnalytics
    /\ Len(hmOps) = 3
    /\ hmOps[1].id # 0
    /\ hmOps[3] = EditOp(cur.chat, "T2", hmOps[1].id)

\* The texts that are the four commands of the bot.
Recognized ==
    {Cmd("start"), Cmd("subscribe"), Cmd("unsubscribe"), Cmd("analytics")}

\* The commands only the administrator may use.
Gated == {"subscribe", "unsubscribe", "analytics"}

\* C11: a subscribe, unsubscribe or analytics command of a sender who is
\* not the administrator gets exactly one refusal, sent to the calling
\* chat; subscribedChats is unchanged and GenerateAnalytics is not called.
C11_NonAdminRefused ==
    /\ hmpc = "generate" => cur.from = ADMIN_USER_ID
    /\ (MessageDone /\ cur.from # ADMIN_USER_ID /\ Command(cur.text) \in Gated) =>
          /\ hmOps = <<SendOp(cur.chat, "refusal", Unused)>>
          /\ OpsOf(hmOps, "gen") = {}
          /\ subscribedChats = before

\* C11 witness: a /subscribe of another user has been refused and nobody is
\* subscribed.
C11_Witness ==
    /\ MessageDone
    /\ cur.from = OtherUser
    /\ cur.text = Cmd("subscribe")
    /\ hmOps = <<SendOp(cur.chat, "refusal", Unused)>>
    /\ subscribedChats = {}

\* C12: after the administrator's /subscribe from chat c, c is subscribed
\* and the membership of every other chat is what it was; when c was
\* subscribed already subscribedChats is what it was.
C12_SubscribeIdempotent ==
    (MessageDone /\ cur.from = ADMIN_USER_ID /\ cur.text = Cmd("subscribe")) =>
        /\ cur.chat \in subscribedChats
        /\ Cardinality({c \in subscribedChats : c = cur.chat}) = 1
        /\ subscribedChats \ {cur.chat} = before \ {cur.chat}
        /\ cur.chat \in before => subscribedChats = before
        /\ hmOps = <<SendOp(cur.chat, "subscribed", Unused)>>

\* C12 witness: the administrator's /subscribe has been handled for a chat
\* that was subscribed already, next to another subscriber.
C12_Witness ==
    /\ MessageDone
    /\ cur.from = ADMIN_USER_ID
    /\ cur.text = Cmd("subscribe")
    /\ cur.chat \in before
    /\ before = Chats
    /\ subscribedChats = Chats

\* C13: after the administrator's /unsubscribe from chat c, c is not
\* subscribed and the membership of every other chat is what it was; when
\* c was not subscribed subscribedChats is what it was.
C13_UnsubscribeIdempotent ==
    (MessageDone /\ cur.from = ADMIN_USER_ID /\ cur.text = Cmd("unsubscribe")) =>
        /\ cur.chat \notin subscribedChats
        /\ subscribedChats \ {cur.chat} = before \ {cur.chat}
        /\ cur.chat \notin before => subscribedChats = before
        /\ hmOps = <<SendOp(cur.chat, "unsubscribed", Unused)>>

\* C13 witness: the administrator's /unsubscribe has removed a chat and
\* left the other subscriber in.
C13_Witness ==
    /\ MessageDone
    /\ cur.from = ADMIN_USER_ID
    /\ cur.text = Cmd("unsubscribe")
    /\ before = Chats
    /\ subscribedChats = Chats \ {cur.chat}

\* C14 as stated: in both entry points a message that is none of the four
\* commands is handled without any send, any GenerateAnalytics call or any
\* change of subscribedChats.
C14_UnrecognizedIgnored ==
    (MessageDone /\ cur.text \notin Recognized) =>
        /\ hmOps = <<>>
        /\ subscribedChats = before

\* C14 amended: handleMessage is never called for an update without a
\* message, and receiving such an update changes nothing but the channel.
\* A message that is none of the four commands never changes
\* subscribedChats and never calls GenerateAnalytics; part_002 sends
\* nothing for it, part_003 answers it with exactly one fixed message to
\* the calling chat: the refusal for another user, the unknown-command
\* notice for the administrator.
C14_UnrecognizedNeverActs ==
    /\ [](hmpc # "idle" => cur # NoMsg)
    /\ []((MessageDone /\ cur.text \notin Recognized) =>
            /\ subscribedChats = before
            /\ OpsOf(hmOps, "gen") = {}
            /\ entry = "part_002" => hmOps = <<>>
            /\ entry = "part_003" =>
                 hmOps = <<SendOp(cur.chat,
                                  IF cur.from = ADMIN_USER_ID THEN "unknown" ELSE "refusal",
                                  Unused)>>)
    /\ [][(updates' < updates /\ hmpc' # "entry") =>
            UNCHANGED <<subscribedChats, dpc, active, hmpc, cur, dapc, hmOps, daOps>>]_vars

\* C14 witness: part_003 has answered a plain text of the administrator
\* with the unknown-command notice.
C14_Witness ==
    /\ MessageDone
    /\ entry = "part_003"
    /\ cur.from = ADMIN_USER_ID
    /\ cur.text = <<"hello">>
    /\ hmOps = <<SendOp(cur.chat, "unknown", Unused)>>

\* C15: /start of any sender gets exactly one message, the welcome text,
\* sent to the calling chat, never the refusal; GenerateAnalytics is not
\* called and subscribedChats is unchanged.
C15_StartForEveryone ==
    (MessageDone /\ cur.text = Cmd("start")) =>
        /\ Len(hmOps) = 1
        /\ hmOps[1].op = "send"
        /\ hmOps[1].chat = cur.chat
        /\ hmOps[1].body = (IF cur.from = ADMIN_USER_ID THEN "welcomeAdmin" ELSE "welcome")
        /\ subscribedChats = before

\* C15 witness: /start of another user has been answered with the welcome
\* text while there are subscribers.
C15_Witness ==
    /\ MessageDone
    /\ cur.from = OtherUser
    /\ cur.text = Cmd("start")
    /\ hmOps = <<SendOp(cur.chat, "welcome", Unused)>>
    /\ subscribedChats # {}

\* C19: the scheduler leaves its blocked send only in the step in which
\* the dispatcher, at its select with no handler running, receives the
\* signal and calls sendDailyAnalytics; it starts computing the next wait
\* only from there; a broadcast starts only in such a step; and while a
\* handler is running a signal that is pending stays pending.  So the
\* completed emissions and the calls of sendDailyAnalytics are the same
\* steps, one for one.
C19_OneBroadcastPerSignal ==
    [][/\ (spc = "send" /\ spc' # "send") =>
             /\ spc' = "compute"
             /\ dpc = "select" /\ active = 0
             /\ dapc = "idle" /\ dapc' = "generate" /\ daOps' = <<>>
       /\ (spc # "compute" /\ spc' = "compute") => spc = "send"
       /\ (dapc = "idle" /\ dapc' # "idle") => (spc = "send" /\ spc' = "compute")
       /\ (spc = "send" /\ dpc = "call") => spc' = "send"]_vars

\* C19 witness: the scheduler is blocked in its send with the next signal
\* while the broadcast of the signal before is still in its range loop.
C19_Witness ==
    /\ spc = "send"
    /\ dapc = "range"
    /\ lastTarget # NoTime

\* C20: subscribedChats is empty when the loop starts; it changes only
\* while the administrator's /subscribe or /unsubscribe is handled, and
\* then only by adding or removing the calling chat; so it is always the
\* set of chats whose latest such command was a /subscribe.
C20_OnlyAdminCommandsChangeSubscribers ==
    /\ subscribedChats = {}
    /\ [](subscribedChats = adminSubscribed)
    /\ [][subscribedChats' # subscribedChats =>
            /\ hmpc = "entry"
            /\ dapc = "idle"
            /\ cur.from = ADMIN_USER_ID
            /\ \/ /\ cur.text = Cmd("subscribe")
                  /\ subscribedChats' = subscribedChats \cup {cur.chat}
               \/ /\ cur.text = Cmd("unsubscribe")
                  /\ subscribedChats' = subscribedChats \ {cur.chat}]_vars

\* C20 witness: a broadcast in which every send failed has returned and
\* every chat is still subscribed.
C20_Witness ==
    /\ DailyDone
    /\ subscribedChats = Chats
    /\ adminSubscribed = Chats
    /\ Cardinality(OpsOf(daOps, "send")) = NumChats
    /\ \A i \in OpsOf(daOps, "send") : daOps[i].id = 0

\* GetMarketData has returned its MarketData to GenerateAnalytics.
MarketDataReturned == svpc = "complete" /\ entry = "part_002"

\* C16: whatever the market-data and completion endpoints answer,
\* GetMarketData and GenerateAnalytics return and never panic: the process
\* is never brought down by an index out of range.
C16_NoPanic == svpc # "panic"

\* C17: with TELEGRAM_BOT_TOKEN set, a missing AI_API_KEY never ends main
\* in log.Fatal (only a missing TELEGRAM_BOT_TOKEN does), and without
\* AI_API_KEY every GenerateAnalytics call returns the local text, no error,
\* and makes no request.
C17_MissingKeyNotFatal ==
    /\ svpc = "fatal" => ~env.token
    /\ (env.token /\ ~env.key) => svpc \in {"main", "authpanic", "loop"}
    /\ (~env.key /\ result.returned) => result = Returned("local", FALSE, 0)

\* C18: in the MarketData that GetMarketData returns every field holds the
\* value the responses held for it and its stub value when they held none:
\* 4100, 1100, 90.5, 98.7, the stub list of three stocks, the stub news;
\* no field is zero or empty.
C18_StubPerField ==
    MarketDataReturned =>
        /\ ~md.isNil
        /\ md.IndexMOEX = (IF got.moex = Absent THEN StubMOEX ELSE got.moex)
        /\ md.IndexRTS = (IF got.rts = Absent THEN StubRTS ELSE got.rts)
        /\ md.USDRate = (IF got.usd = Absent THEN StubUSD ELSE got.usd)
        /\ md.EURRate = (IF got.eur = Absent THEN StubEUR ELSE got.eur)
        /\ ~got.stocks => md.TopStocks = StubStocks
        /\ ~got.news => md.MarketNews = StubNews
        /\ md.TopStocks # <<>> /\ md.MarketNews # <<>>
        /\ md.IndexMOEX # 0 /\ md.IndexRTS # 0 /\ md.USDRate # 0 /\ md.EURRate # 0

\* GenerateAnalytics has returned from a call made with a credential set.
AnalyticsReturned == result.returned /\ env.key

\* C21 as stated: with a credential, a call of GenerateAnalytics that has
\* returned made exactly one request to the completion endpoint; it returned
\* an error and empty text exactly when the request, the read or the
\* decoding failed, the response carried an error message or it had no
\* choices, and the content of the first choice with no error otherwise.
C21_OneRequestTextOrError ==
    AnalyticsReturned =>
        /\ result.requests = 1
        /\ result.err => result.text = ""
        /\ result.err <=> \/ result.resp.fail \in {"request", "read", "parse"}
                          \/ result.resp.error = "message"
                          \/ result.resp.choices = 0
        /\ ~result.err => result.text = "content"

\* C21 amended: with a credential, a call of GenerateAnalytics that has
\* returned made at most one request to the completion endpoint: one, or
\* none when the request could not be built, which only the service of
\* ai_service.go (its URL comes from the environment) can meet.  It
\* returned an error and empty text exactly when the request could not be
\* built, the request, the read or the decoding failed, the response
\* carried an error (in part_000 one with a message, in ai_service.go any
\* error object) or it had no choices, and the content of the first choice
\* with no error otherwise.
C21_AtMostOneRequest ==
    AnalyticsReturned =>
        /\ result.requests = (IF result.resp.fail = "url" THEN 0 ELSE 1)
        /\ result.resp.fail = "url" => entry = "part_003"
        /\ result.err => result.text = ""
        /\ result.err <=> \/ result.resp.fail # "none"
                          \/ result.resp.error = "message"
                          \/ (entry = "part_003" /\ result.resp.error = "empty")
                          \/ result.resp.choices = 0
        /\ ~result.err => result.text = "content"

\* C21 witness: a call with a credential has returned an error for a
\* response that carried an error message together with a choice.
C21_Witness ==
    /\ AnalyticsReturned
    /\ result.resp.fail = "none"
    /\ result.resp.error = "message"
    /\ result.resp.choices > 0
    /\ result.err
    /\ result.requests = 1

====
